---- MODULE Spec2Model ----
(***************************************************************************)
(* A model of clippy_lints/src/map_unit_fn.rs: the late lint pass MapUnit, *)
(* which flags option.map(f) and result.map(f) statements whose mapper     *)
(* returns the unit type and suggests an if-let rewrite.                   *)
(*                                                                         *)
(* The typed HIR handed to the pass is modelled as records:                *)
(*   a type    [sty, ...]              (rustc::ty::TyKind)                 *)
(*   a span    [id, text, expn]        (position, source text, macro flag) *)
(*   an expr   [node, ty, span, ...]   (hir::Expr with its expr_ty)        *)
(*   a stmt    [node, span, ...]       (hir::Stmt)                         *)
(* Source text is a sequence of text pieces; the text of a receiver is     *)
(* kept character by character, because let_binding_name edits it.         *)
(* Option<T> is the empty sequence (None) or a one-element sequence.       *)
(***************************************************************************)
EXTENDS Integers, Sequences, FiniteSets, TLC

VARIABLES
    cx,         \* the LateContext: here, whether source text can be read
    stmt,       \* the hir::Stmt handed to check_stmt
    body,       \* the hir::Expr handed to reduce_unit_expression
    pc,         \* position of the run
    diags,      \* the diagnostics emitted so far
    reduced,    \* the Option<Span> reduce_unit_expression returned
    rereduced   \* the Option<Span> returned for the re-wrapped output

vars == <<cx, stmt, body, pc, diags, reduced, rereduced>>

(***************************** bounds **************************************)

\* Nesting depth of blocks in the expressions handed to the reducer.
MaxDepth == 2
\* Nesting depth of blocks in the closure bodies handed to the rule driver.
MaxBodyDepth == 1
\* Largest number of statements in a block.
MaxStmts == 2
\* Largest number of parameters of a closure.
MaxParams == 2

(***************************** Option<T> ***********************************)

None == <<>>
Some(x) == <<x>>

(***************************** types ***************************************)

ty_Tuple(elems) == [sty |-> "Tuple", elems |-> elems]
ty_Never == [sty |-> "Never"]
ty_Int == [sty |-> "Int"]
ty_Ref == [sty |-> "Ref"]
ty_Adt(path) == [sty |-> "Adt", path |-> path]
ty_FnDef(sig) == [sty |-> "FnDef", sig |-> sig]
ty_FnPtr(sig) == [sty |-> "FnPtr", sig |-> sig]
ty_Closure == [sty |-> "Closure"]

ty_Unit == ty_Tuple(<<>>)

\* A poly function signature: its return type, and whether it binds
\* late-bound variables.
PolyFnSig(output, bound) == [output |-> output, has_bound_vars |-> bound]

\* Binder::no_bound_vars: the signature, unless it binds variables.
no_bound_vars(sig) == IF sig.has_bound_vars THEN None ELSE Some(sig)

\* cx.tables.expr_ty(expr)
expr_ty(lcx, e) == e.ty

(***************************** spans ***************************************)

Span(id, text, expn) == [id |-> id, text |-> text, expn |-> expn]

\* utils::in_macro
in_macro(span) == span.expn

\* utils::snippet: the text the span covers, or the default when the source
\* cannot be read.
snippet(lcx, span, default) ==
    IF lcx.source_available THEN span.text ELSE default

(***************************** classifiers *********************************)

is_unit_type_single_field(ty) ==
    CASE ty.sty = "Tuple" -> Len(ty.elems) <= 1
      [] ty.sty = "Never" -> TRUE
      [] OTHER -> FALSE

is_unit_type(ty) ==
    CASE ty.sty = "Tuple" -> ty.elems = <<>>
      [] ty.sty = "Never" -> TRUE
      [] OTHER -> FALSE

is_unit_function(lcx, e) ==
    LET ty == expr_ty(lcx, e) IN
    IF ty.sty = "FnDef"
    THEN LET fn_type == no_bound_vars(ty.sig) IN
         IF fn_type # None THEN is_unit_type(fn_type[1].output) ELSE FALSE
    ELSE FALSE

is_unit_expression(lcx, e) == is_unit_type(expr_ty(lcx, e))

(***************************** the reducer *********************************)

RECURSIVE reduce_semi_to_inner(_, _)
reduce_semi_to_inner(lcx, e) ==
    IF ~is_unit_expression(lcx, e) THEN None
    ELSE IF e.node \in {"Call", "MethodCall"} THEN Some(e.span)
    ELSE IF e.node = "Block"
    THEN LET stmts == e.block.stmts
             tail == e.block.expr
         IN  IF stmts = <<>> /\ tail # None
             THEN reduce_semi_to_inner(lcx, tail[1])
             ELSE IF Len(stmts) = 1 /\ tail = None
             THEN LET inner_stmt == stmts[1] IN
                  CASE inner_stmt.node = "Local" -> Some(inner_stmt.local.span)
                    [] inner_stmt.node = "Expr" -> Some(inner_stmt.expr.span)
                    [] inner_stmt.node = "Semi" -> Some(inner_stmt.expr.span)
                    [] inner_stmt.node = "Item" -> None
             ELSE None
    ELSE None

reduce_tail_unreduced(lcx, e) ==
    IF ~is_unit_expression(lcx, e) THEN None
    ELSE IF e.node \in {"Call", "MethodCall"} THEN Some(e.span)
    ELSE IF e.node = "Block"
    THEN LET stmts == e.block.stmts
             tail == e.block.expr
         IN  IF stmts = <<>> /\ tail # None
             THEN Some(tail[1].span)
             ELSE IF Len(stmts) = 1 /\ tail = None
             THEN LET inner_stmt == stmts[1] IN
                  CASE inner_stmt.node = "Local" -> Some(inner_stmt.local.span)
                    [] inner_stmt.node = "Expr" -> Some(inner_stmt.expr.span)
                    [] inner_stmt.node = "Semi" -> Some(inner_stmt.span)
                    [] inner_stmt.node = "Item" -> None
             ELSE None
    ELSE None

RECURSIVE reduce_unit_expression(_, _)
reduce_unit_expression(lcx, e) ==
    IF ~is_unit_expression(lcx, e) THEN None
    ELSE IF e.node \in {"Call", "MethodCall"} THEN Some(e.span)
    ELSE IF e.node = "Block"
    THEN LET stmts == e.block.stmts
             tail == e.block.expr
         IN  IF stmts = <<>> /\ tail # None
             THEN reduce_unit_expression(lcx, tail[1])
             ELSE IF Len(stmts) = 1 /\ tail = None
             THEN LET inner_stmt == stmts[1] IN
                  CASE inner_stmt.node = "Local" -> Some(inner_stmt.local.span)
                    [] inner_stmt.node = "Expr" -> Some(inner_stmt.expr.span)
                    [] inner_stmt.node = "Semi" -> Some(inner_stmt.span)
                    [] inner_stmt.node = "Item" -> None
             ELSE None
    ELSE None

(***************************** input expressions ***************************)

\* The expressions without sub-blocks that a closure body is built from,
\* placed at tree position p.
LeafExpr(node, ty, text, p) == [node |-> node, ty |-> ty, span |-> Span(p, text, FALSE)]

LeafExprs(p) ==
    {LeafExpr("Call", t, <<"f(v)">>, p) : t \in {ty_Unit, ty_Never, ty_Int}}
    \cup {LeafExpr("MethodCall", ty_Unit, <<"v.g()">>, p),
          LeafExpr("Assign", ty_Unit, <<"w = v">>, p),
          LeafExpr("Path", ty_Int, <<"v">>, p)}

\* The statements of a block at position p, as its i-th statement.
LocalStmt(p, i) ==
    [node |-> "Local",
     local |-> [span |-> Span(p \o <<i, 0>>, <<"let y = f(v);">>, FALSE)],
     span |-> Span(p \o <<i>>, <<"let y = f(v);">>, FALSE)]

ItemStmt(p, i) == [node |-> "Item", span |-> Span(p \o <<i>>, <<"fn h() {}">>, FALSE)]

ExprStmt(e, p, i) == [node |-> "Expr", expr |-> e, span |-> Span(p \o <<i>>, e.span.text, FALSE)]

SemiStmt(e, p, i) ==
    [node |-> "Semi", expr |-> e, span |-> Span(p \o <<i>>, e.span.text \o <<";">>, FALSE)]

\* A block of two or more statements: local declarations, the last of them
\* possibly a call terminated by a separator.
LastStmtsAt(p, i) ==
    {LocalStmt(p, i), SemiStmt(LeafExpr("Call", ty_Unit, <<"g(y)">>, p \o <<i, 0>>), p, i)}

MultiStmtSeqs(p, k) ==
    {Append([i \in 1..(k - 1) |-> LocalStmt(p, i)], s) : s \in LastStmtsAt(p, k)}

RECURSIVE StmtsText(_)
StmtsText(ss) == IF ss = <<>> THEN <<>> ELSE Head(ss).span.text \o StmtsText(Tail(ss))

\* Whether a statement diverges: its expression has the never type.
Diverges(st) == st.node \in {"Expr", "Semi"} /\ st.expr.ty = ty_Never

\* The types a block can have: that of its trailing expression (a diverging
\* one also coerces to unit); without one, never when a statement diverges
\* and unit otherwise.
BlockTys(stmts, tail) ==
    IF tail # None
    THEN {tail[1].ty} \cup (IF tail[1].ty = ty_Never THEN {ty_Unit} ELSE {})
    ELSE IF \E k \in DOMAIN stmts : Diverges(stmts[k]) THEN {ty_Never} ELSE {ty_Unit}

BlockExpr(stmts, tail, ty, p) ==
    [node |-> "Block",
     block |-> [stmts |-> stmts, expr |-> tail],
     ty |-> ty,
     span |-> Span(p, <<"{">> \o StmtsText(stmts)
                       \o (IF tail = None THEN <<>> ELSE tail[1].span.text)
                       \o <<"}">>, FALSE)]

\* The statements a block of one statement can hold.
StmtsAt(p, i) ==
    LET q == p \o <<i, 0>> IN
    {LocalStmt(p, i), ItemStmt(p, i)}
    \cup {ExprStmt(e, p, i) : e \in {LeafExpr("Call", ty_Unit, <<"f(v)">>, q),
                                    LeafExpr("Assign", ty_Unit, <<"w = v">>, q),
                                    BlockExpr(<<>>,
                                              Some(LeafExpr("Call", ty_Unit, <<"f(v)">>,
                                                            q \o <<0>>)),
                                              ty_Unit, q)}}
    \cup {SemiStmt(e, p, i) : e \in {LeafExpr("Call", ty_Unit, <<"f(v)">>, q),
                                    LeafExpr("Call", ty_Never, <<"f(v)">>, q),
                                    LeafExpr("Call", ty_Int, <<"f(v)">>, q),
                                    LeafExpr("Path", ty_Int, <<"v">>, q)}}

StmtSeqs(p) ==
    {<<>>} \cup {<<s>> : s \in StmtsAt(p, 1)}
    \cup UNION {MultiStmtSeqs(p, k) : k \in 2..MaxStmts}

\* Every expression of block depth at most d at position p.
RECURSIVE Exprs(_, _)
Exprs(p, d) ==
    IF d = 0 THEN LeafExprs(p)
    ELSE LET tails == {None} \cup {Some(e) : e \in Exprs(p \o <<0>>, d - 1)}
             shapes == {sh \in StmtSeqs(p) \X tails \X {ty_Unit, ty_Never, ty_Int} :
                           sh[3] \in BlockTys(sh[1], sh[2])}
         IN  LeafExprs(p) \cup {BlockExpr(sh[1], sh[2], sh[3], p) : sh \in shapes}

Contexts == [source_available : BOOLEAN]

NoStmt == [node |-> "None"]
NoExpr == [node |-> "None"]

(***************************** helpers of the rule ************************)

\* utils::paths::OPTION and utils::paths::RESULT
OPTION == <<"core", "option", "Option">>
RESULT == <<"core", "result", "Result">>

\* utils::match_type: the type is the nominal type of that path.
match_type(lcx, ty, path) == ty.sty = "Adt" /\ ty.path = path

\* utils::method_chain_args: the argument lists of a chain of method calls
\* ending the expression, matched last to first.
RECURSIVE method_chain_args(_, _)
method_chain_args(e, methods) ==
    IF methods = <<>> THEN Some(<<>>)
    ELSE IF e.node = "MethodCall" /\ e.segment.ident = methods[Len(methods)]
    THEN LET rest == method_chain_args(e.args[1], SubSeq(methods, 1, Len(methods) - 1))
         IN  IF rest = None THEN None ELSE Some(Append(rest[1], e.args))
    ELSE None

\* utils::iter_input_pats: the body's arguments, one per declared input.
iter_input_pats(decl, closure_body) ==
    [i \in 1..Len(decl.inputs) |-> closure_body.arguments[i]]

\* Iterator::next on a fresh iterator
next(items) == IF Len(items) = 0 THEN None ELSE Some(items[1])

\* str::replace of one character by another
replace(text, from, to) ==
    [i \in 1..Len(text) |-> IF text[i] = from THEN to ELSE text[i]]

\* DiagnosticBuilder::span_suggestion
span_suggestion(sp, help, suggestion, applicability) ==
    [span |-> sp, msg |-> help, suggestion |-> suggestion, applicability |-> applicability]

\* utils::span_lint_and_then: the diagnostic of that lint at that span, with
\* the suggestions its callback attaches.
span_lint_and_then(lint, sp, msg, suggestions) ==
    [lint |-> lint, span |-> sp, msg |-> msg, suggestions |-> suggestions]

(***************************** the rule ************************************)

unit_closure_any_arity(lcx, e) ==
    IF e.node = "Closure"
    THEN LET decl == e.closure.decl
             closure_body == e.closure.body
             body_expr == closure_body.value
         IN  IF is_unit_expression(lcx, body_expr) /\ Len(closure_body.arguments) > 0
             THEN Some(<<closure_body.arguments[1], body_expr>>)
             ELSE None
    ELSE None

unit_closure(lcx, e) ==
    IF e.node = "Closure"
    THEN LET decl == e.closure.decl
             closure_body == e.closure.body
             body_expr == closure_body.value
         IN  IF /\ Len(decl.inputs) = 1
                /\ is_unit_expression(lcx, body_expr)
                /\ next(iter_input_pats(decl, closure_body)) # None
             THEN Some(<<next(iter_input_pats(decl, closure_body))[1], body_expr>>)
             ELSE None
    ELSE None

let_binding_name_no_prefix(lcx, var_arg) ==
    CASE var_arg.node = "Field" -> replace(snippet(lcx, var_arg.span, <<"_">>), ".", "_")
      [] var_arg.node = "Path" -> snippet(lcx, var_arg.span, <<"_">>)
      [] OTHER -> <<"_">>

let_binding_name(lcx, var_arg) ==
    CASE var_arg.node = "Field" -> replace(snippet(lcx, var_arg.span, <<"_">>), ".", "_")
      [] var_arg.node = "Path" -> <<"_">> \o snippet(lcx, var_arg.span, <<>>)
      [] OTHER -> <<"_">>

\* (the message's backquotes are written as quotes)
suggestion_msg_swapped(function_type, map_type) ==
    <<"called 'map(f)' on an ", function_type, " value where 'f' is a unit ", map_type>>

suggestion_msg(function_type, map_type) ==
    <<"called 'map(f)' on an ", map_type, " value where 'f' is a unit ", function_type>>

\* The (map_type, variant, lint) of the receiver's type, or None.
container_kind_any_adt(lcx, var_arg) ==
    IF match_type(lcx, expr_ty(lcx, var_arg), RESULT)
    THEN Some(<<"Result", "Ok", "RESULT_MAP_UNIT_FN">>)
    ELSE IF expr_ty(lcx, var_arg).sty = "Adt"
    THEN Some(<<"Option", "Some", "OPTION_MAP_UNIT_FN">>)
    ELSE None

container_kind(lcx, var_arg) ==
    IF match_type(lcx, expr_ty(lcx, var_arg), OPTION)
    THEN Some(<<"Option", "Some", "OPTION_MAP_UNIT_FN">>)
    ELSE IF match_type(lcx, expr_ty(lcx, var_arg), RESULT)
    THEN Some(<<"Result", "Ok", "RESULT_MAP_UNIT_FN">>)
    ELSE None

\* The suggestion of the closure case.
closure_suggestion_always_applicable(lcx, st, variant, var_arg, binding, closure_expr) ==
    LET reduced_expr_span == reduce_unit_expression(lcx, closure_expr) IN
    span_suggestion(st.span, "try this",
        <<"if let ", variant, "(">> \o snippet(lcx, binding.pat.span, <<"_">>)
            \o <<") = ">> \o snippet(lcx, var_arg.span, <<"_">>)
            \o (IF reduced_expr_span # None
                THEN <<" { ">> \o snippet(lcx, reduced_expr_span[1], <<"_">>) \o <<" }">>
                ELSE <<" { ... }">>),
        "MachineApplicable")

closure_suggestion(lcx, st, variant, var_arg, binding, closure_expr) ==
    LET reduced_expr_span == reduce_unit_expression(lcx, closure_expr) IN
    IF reduced_expr_span # None
    THEN span_suggestion(st.span, "try this",
            <<"if let ", variant, "(">> \o snippet(lcx, binding.pat.span, <<"_">>)
                \o <<") = ">> \o snippet(lcx, var_arg.span, <<"_">>)
                \o <<" { ">> \o snippet(lcx, reduced_expr_span[1], <<"_">>) \o <<" }">>,
            "MachineApplicable")
    ELSE span_suggestion(st.span, "try this",
            <<"if let ", variant, "(">> \o snippet(lcx, binding.pat.span, <<"_">>)
                \o <<") = ">> \o snippet(lcx, var_arg.span, <<"_">>)
                \o <<" { ... }">>,
            "Unspecified")

\* The diagnostics lint_map_unit_fn emits for the map call e of statement st.
lint_map_unit_fn(lcx, st, e, map_args) ==
    LET var_arg == map_args[1]
        kind == container_kind(lcx, var_arg)
    IN  IF kind = None THEN <<>>
        ELSE LET map_type == kind[1][1]
                 variant == kind[1][2]
                 lint == kind[1][3]
                 fn_arg == map_args[2]
             IN  IF is_unit_function(lcx, fn_arg)
                 THEN LET msg == suggestion_msg("function", map_type)
                          suggestion ==
                              <<"if let ", variant, "(">> \o let_binding_name(lcx, var_arg)
                                  \o <<") = ">> \o snippet(lcx, var_arg.span, <<"_">>)
                                  \o <<" { ">> \o snippet(lcx, fn_arg.span, <<"_">>)
                                  \o <<"(...) }">>
                      IN  <<span_lint_and_then(lint, e.span, msg,
                                <<span_suggestion(st.span, "try this", suggestion,
                                                  "Unspecified")>>)>>
                 ELSE LET closure == unit_closure(lcx, fn_arg) IN
                      IF closure # None
                      THEN LET binding == closure[1][1]
                               closure_expr == closure[1][2]
                               msg == suggestion_msg("closure", map_type)
                           IN  <<span_lint_and_then(lint, e.span, msg,
                                     <<closure_suggestion(lcx, st, variant, var_arg,
                                                          binding, closure_expr)>>)>>
                      ELSE <<>>

\* The diagnostics check_stmt emits for statement st.
check_stmt_in_macro_too(lcx, st) ==
    IF st.node = "Semi"
    THEN LET arglists == method_chain_args(st.expr, <<"map">>) IN
         IF arglists # None
         THEN lint_map_unit_fn(lcx, st, st.expr, arglists[1][1])
         ELSE <<>>
    ELSE <<>>

check_stmt_emits(lcx, st) ==
    IF in_macro(st.span) THEN <<>>
    ELSE IF st.node = "Semi"
    THEN LET arglists == method_chain_args(st.expr, <<"map">>) IN
         IF arglists # None
         THEN lint_map_unit_fn(lcx, st, st.expr, arglists[1][1])
         ELSE <<>>
    ELSE <<>>

(***************************** input statements ****************************)

OptionTy == ty_Adt(OPTION)
ResultTy == ty_Adt(RESULT)
VecTy == ty_Adt(<<"alloc", "vec", "Vec">>)

\* Receivers: their expression kind and their source text, by character.
ReceiverShapes ==
    {<<"Path", <<"o", "p", "t">>>>,
     <<"Path", <<"m", ":", ":", "o">>>>,
     <<"Field", <<"x", ".", "f", "i", "e", "l", "d">>>>,
     <<"Field", <<"x", ".", "y", ".", "z">>>>,
     <<"Field", <<"g", "(", ")", ".", "f">>>>,
     <<"MethodCall", <<"g", "(", ")">>>>}

SimpleReceiverShapes ==
    {<<"Path", <<"o", "p", "t">>>>,
     <<"Path", <<"r", "e", "s">>>>,
     <<"Field", <<"x", ".", "f", "i", "e", "l", "d">>>>}

Receiver(shape, ty) == [node |-> shape[1], ty |-> ty, span |-> Span(<<1, 1>>, shape[2], FALSE)]

ReceiverTys == {OptionTy, ResultTy, VecTy, ty_Ref}

\* Mappers that are not closures: a path to a function, a path to a variable
\* holding a function pointer, a call that returns one.
OutputTys == {ty_Unit, ty_Tuple(<<ty_Int>>), ty_Tuple(<<ty_Int, ty_Int>>), ty_Never, ty_Int}

Mapper(node, ty, text) == [node |-> node, ty |-> ty, span |-> Span(<<1, 2>>, text, FALSE)]

NamedMappers ==
    {Mapper("Path", ty_FnDef(PolyFnSig(out, bound)), <<"l", "o", "g">>) :
        out \in OutputTys, bound \in BOOLEAN}
    \cup {Mapper("Path", ty_FnPtr(PolyFnSig(ty_Unit, FALSE)), <<"l", "o", "g">>),
          Mapper("Call", ty_FnPtr(PolyFnSig(ty_Unit, FALSE)), <<"l", "o", "g", "(", ")">>)}

\* Closures |a1, .., an| body
ParamNames == <<"msg", "k", "j", "i">>

Arg(i) == [pat |-> [span |-> Span(<<1, 2, i>>, <<ParamNames[i]>>, FALSE)]]

ClosureExpr(n, value) ==
    [node |-> "Closure",
     ty |-> ty_Closure,
     closure |-> [decl |-> [inputs |-> [i \in 1..n |-> "_"]],
                  body |-> [arguments |-> [i \in 1..n |-> Arg(i)], value |-> value]],
     span |-> Span(<<1, 2>>, <<"|">> \o [i \in 1..n |-> ParamNames[i]] \o <<"| ">>
                               \o value.span.text, FALSE)]

ClosureMappers ==
    {ClosureExpr(n, value) : n \in 0..MaxParams, value \in Exprs(<<1, 2, 0>>, MaxBodyDepth)}

MethodCallExpr(name, args) ==
    [node |-> "MethodCall",
     segment |-> [ident |-> name],
     args |-> args,
     ty |-> ty_Int,
     span |-> Span(<<1>>, args[1].span.text \o <<".", name, "(">>
                          \o (IF Len(args) > 1 THEN args[2].span.text ELSE <<>>)
                          \o <<")">>, FALSE)]

ExprOfStmt(node, e, expn) ==
    [node |-> node, expr |-> e,
     span |-> Span(<<>>, e.span.text \o (IF node = "Semi" THEN <<";">> ELSE <<>>), expn)]

\* Statements around a mapper that is no closure: every receiver, the method
\* named map or not, the statement separator-terminated or not.
NamedStmts ==
    {ExprOfStmt(node, MethodCallExpr(name, <<Receiver(shape, ty), fn_arg>>), expn) :
        node \in {"Semi", "Expr"}, name \in {"map", "and_then"},
        shape \in ReceiverShapes, ty \in ReceiverTys,
        fn_arg \in NamedMappers, expn \in BOOLEAN}

\* Statements receiver.map(closure);
ClosureStmts ==
    {ExprOfStmt("Semi", MethodCallExpr("map", <<Receiver(shape, ty), fn_arg>>), expn) :
        shape \in SimpleReceiverShapes, ty \in {OptionTy, ResultTy, VecTy},
        fn_arg \in ClosureMappers, expn \in BOOLEAN}

\* Statements that are no method call with a mapper at all.
OtherStmts ==
    {ExprOfStmt("Semi", MethodCallExpr("map", <<Receiver(shape, ty_Ref)>>), expn) :
        shape \in ReceiverShapes, expn \in BOOLEAN}
    \cup {ExprOfStmt("Semi", LeafExpr("Call", ty_Unit, <<"f(v)">>, <<1>>), expn) :
            expn \in BOOLEAN}
    \cup {[node |-> "Local",
           local |-> [span |-> Span(<<1>>, <<"let y = opt.map(log);">>, expn)],
           span |-> Span(<<>>, <<"let y = opt.map(log);">>, expn)] : expn \in BOOLEAN}
    \cup {[node |-> "Item", span |-> Span(<<>>, <<"fn h() {}">>, expn)] : expn \in BOOLEAN}

Stmts == NamedStmts \cup ClosureStmts \cup OtherStmts

(***************************** the rule, run on a statement ****************)

Init ==
    /\ cx \in Contexts
    /\ stmt \in Stmts
    /\ body = NoExpr
    /\ pc = "start"
    /\ diags = <<>>
    /\ reduced = None
    /\ rereduced = None

check_stmt ==
    /\ pc = "start"
    /\ diags' = diags \o check_stmt_emits(cx, stmt)
    /\ pc' = "done"
    /\ UNCHANGED <<cx, stmt, body, reduced, rereduced>>

Next == check_stmt

Spec == Init /\ [][Next]_vars

(***************************** the reducer, run on its own *****************)

InitReduce ==
    /\ cx \in Contexts
    /\ body \in Exprs(<<>>, MaxDepth)
    /\ stmt = NoStmt
    /\ pc = "start"
    /\ diags = <<>>
    /\ reduced = None
    /\ rereduced = None

Reduce ==
    /\ pc = "start"
    /\ reduced' = reduce_unit_expression(cx, body)
    /\ pc' = "reduced"
    /\ UNCHANGED <<cx, stmt, body, diags, rereduced>>

\* The node of expression e that span sp covers: an expression, a
\* statement, or the local declaration of a statement.
StmtNodeOfSpan(st, sp) ==
    IF st.span = sp THEN Some([kind |-> "stmt", stmt |-> st])
    ELSE IF st.node = "Local" /\ st.local.span = sp THEN Some([kind |-> "local", stmt |-> st])
    ELSE IF st.node \in {"Expr", "Semi"} /\ st.expr.span = sp
    THEN Some([kind |-> "expr", expr |-> st.expr])
    ELSE None

RECURSIVE NodeOfSpan(_, _)
NodeOfSpan(e, sp) ==
    IF e.span = sp THEN Some([kind |-> "expr", expr |-> e])
    ELSE IF e.node = "Block"
    THEN LET stmts == e.block.stmts
             hits == {i \in DOMAIN stmts : StmtNodeOfSpan(stmts[i], sp) # None}
         IN  IF hits # {} THEN StmtNodeOfSpan(stmts[CHOOSE i \in hits : TRUE], sp)
             ELSE IF e.block.expr # None THEN NodeOfSpan(e.block.expr[1], sp)
             ELSE None
    ELSE None

\* The trivial block around a node: { X } for an expression, { X; } for a
\* statement or a local declaration.
WrapperId == <<-1>>

Rewrap(n) ==
    IF n.kind = "expr"
    THEN BlockExpr(<<>>, Some(n.expr), n.expr.ty, WrapperId)
    ELSE BlockExpr(<<n.stmt>>, None, ty_Unit, WrapperId)

Rereduce ==
    /\ pc = "reduced"
    /\ reduced # None
    /\ rereduced' = reduce_unit_expression(cx, Rewrap(NodeOfSpan(body, reduced[1])[1]))
    /\ pc' = "rereduced"
    /\ UNCHANGED <<cx, stmt, body, diags, reduced>>

NextReduce == Reduce \/ Rereduce

SpecReduce == InitReduce /\ [][NextReduce]_vars

(***************************** what the claims are about *******************)

Done == pc = "done"

\* The statement is `receiver.map(mapper);`
IsMapStmt ==
    /\ stmt.node = "Semi"
    /\ stmt.expr.node = "MethodCall"
    /\ stmt.expr.segment.ident = "map"
    /\ Len(stmt.expr.args) = 2

StmtReceiver == stmt.expr.args[1]
StmtMapper == stmt.expr.args[2]

IsOptionTy(ty) == ty.sty = "Adt" /\ ty.path = <<"core", "option", "Option">>
IsResultTy(ty) == ty.sty = "Adt" /\ ty.path = <<"core", "result", "Result">>
IsUnitLikeTy(ty) == ty = [sty |-> "Tuple", elems |-> <<>>] \/ ty = [sty |-> "Never"]

\* The mapper is a function definition with a concrete signature that
\* returns the empty tuple or never.
IsUnitNamedFn(e) ==
    /\ e.ty.sty = "FnDef"
    /\ ~e.ty.sig.has_bound_vars
    /\ IsUnitLikeTy(e.ty.sig.output)

\* The mapper is a closure of one parameter with a unit-like body.
IsOneParamUnitClosure(e) ==
    /\ e.node = "Closure"
    /\ Len(e.closure.decl.inputs) = 1
    /\ IsUnitLikeTy(e.closure.body.value.ty)

\* The text read from a span, or the placeholder.
TextOr(sp, placeholder) == IF cx.source_available THEN sp.text ELSE placeholder

\* C1: a statement whose span comes from macro expansion gets no diagnostic,
\* whatever it contains.
C1_MacroStmtNoDiagnostic == (Done /\ stmt.span.expn) => diags = <<>>

C1_Witness ==
    /\ Done /\ stmt.span.expn /\ IsMapStmt
    /\ IsOptionTy(StmtReceiver.ty) /\ StmtReceiver.node = "Path"
    /\ IsUnitNamedFn(StmtMapper)
    /\ diags = <<>>

\* C2: a map call on a receiver that is neither an Option nor a Result gets
\* no diagnostic, even with a unit function or a one-parameter unit closure
\* as its mapper.
C2_OtherReceiverNoDiagnostic ==
    (Done /\ IsMapStmt /\ ~IsOptionTy(StmtReceiver.ty) /\ ~IsResultTy(StmtReceiver.ty))
        => diags = <<>>

C2_Witness ==
    /\ Done /\ ~stmt.span.expn /\ IsMapStmt
    /\ ~IsOptionTy(StmtReceiver.ty) /\ ~IsResultTy(StmtReceiver.ty)
    /\ IsOneParamUnitClosure(StmtMapper)
    /\ diags = <<>>

\* C3: a run ends with no diagnostic (Skipped) or exactly one (Emitted); a
\* statement that is not macro-expanded and is a map call on an Option or a
\* Result gets exactly one diagnostic if its mapper is a unit-returning named
\* function or a one-parameter closure with a unit-like body, and none
\* otherwise.
C3_OneDiagnosticIffUnitMapper ==
    /\ pc \in {"start", "done"}
    /\ pc = "start" => (diags = <<>> /\ ENABLED check_stmt)
    /\ Done => Len(diags) \in {0, 1}
    /\ (Done /\ ~stmt.span.expn /\ IsMapStmt
          /\ (IsOptionTy(StmtReceiver.ty) \/ IsResultTy(StmtReceiver.ty)))
        => IF IsUnitNamedFn(StmtMapper) \/ IsOneParamUnitClosure(StmtMapper)
           THEN Len(diags) = 1
           ELSE diags = <<>>

C3_Witness ==
    /\ Done /\ ~stmt.span.expn /\ IsMapStmt
    /\ IsResultTy(StmtReceiver.ty)
    /\ IsOneParamUnitClosure(StmtMapper)
    /\ Len(diags) = 1

\* C4: the suggested edit is tagged MachineApplicable exactly when the
\* mapper is a unit closure whose body the reducer reduces to a span, and
\* then the suggestion's body is the snippet of that span; a closure whose
\* body is not reduced gets the elided body and the tag Unspecified; a named
\* function always gets the tag Unspecified.
C4_ApplicabilityFollowsReduction ==
    Done => \A i \in DOMAIN diags :
        LET sugg == diags[i].suggestions[1]
            span_of_body == reduce_unit_expression(cx, StmtMapper.closure.body.value)
            opening == <<"if let ", IF IsOptionTy(StmtReceiver.ty) THEN "Some" ELSE "Ok", "(">>
                           \o TextOr(StmtMapper.closure.body.arguments[1].pat.span, <<"_">>)
                           \o <<") = ">> \o TextOr(StmtReceiver.span, <<"_">>)
        IN  /\ Len(diags[i].suggestions) = 1
            /\ sugg.applicability \in {"MachineApplicable", "Unspecified"}
            /\ sugg.applicability = "MachineApplicable"
                 <=> (StmtMapper.node = "Closure" /\ span_of_body # None)
            /\ (StmtMapper.node = "Closure" /\ span_of_body # None)
                 => sugg.suggestion
                      = opening \o <<" { ">> \o TextOr(span_of_body[1], <<"_">>) \o <<" }">>
            /\ (StmtMapper.node = "Closure" /\ span_of_body = None)
                 => /\ sugg.suggestion = opening \o <<" { ... }">>
                    /\ sugg.applicability = "Unspecified"
            /\ StmtMapper.node # "Closure" => sugg.applicability = "Unspecified"

\* a closure whose body is a block, reduced to the call inside it
C4_Witness ==
    /\ Done /\ diags # <<>> /\ cx.source_available
    /\ StmtMapper.node = "Closure"
    /\ StmtMapper.closure.body.value.node = "Block"
    /\ diags[1].suggestions[1].applicability = "MachineApplicable"
    /\ diags[1].suggestions[1].suggestion
         = <<"if let ", "Ok", "(", "msg", ") = ", "r", "e", "s", " { ", "f(v)", " }">>

\* C5: the lint, the container word of the message and the constructor of
\* the suggestion agree with the receiver's container kind, which is Option
\* or Result and never both; the message says "unit function" for a named
\* function and "unit closure" for a closure.
C5_KindsAgree ==
    Done => \A i \in DOMAIN diags :
        LET d == diags[i]
            is_option == IsOptionTy(StmtReceiver.ty)
            is_result == IsResultTy(StmtReceiver.ty)
            word == IF is_option THEN "Option" ELSE "Result"
        IN  /\ is_option # is_result
            /\ d.lint = (IF is_option THEN "OPTION_MAP_UNIT_FN" ELSE "RESULT_MAP_UNIT_FN")
            /\ d.msg = <<"called 'map(f)' on an ", word, " value where 'f' is a unit ",
                         IF StmtMapper.node = "Closure" THEN "closure" ELSE "function">>
            /\ SubSeq(d.suggestions[1].suggestion, 1, 3)
                 = <<"if let ", IF is_option THEN "Some" ELSE "Ok", "(">>

C5_Witness ==
    /\ Done /\ diags # <<>>
    /\ IsResultTy(StmtReceiver.ty)
    /\ StmtMapper.node = "Path"
    /\ diags[1].lint = "RESULT_MAP_UNIT_FN"

C7_UnitFunctionClassification ==
    (Done /\ IsMapStmt) =>
        /\ is_unit_function(cx, StmtMapper) <=> IsUnitNamedFn(StmtMapper)
        /\ (StmtMapper.node # "Closure" /\ ~IsUnitNamedFn(StmtMapper)) => diags = <<>>

\* a function returning a single-field tuple, mapped over an Option
C7_Witness ==
    /\ Done /\ ~stmt.span.expn /\ IsMapStmt
    /\ IsOptionTy(StmtReceiver.ty)
    /\ StmtMapper.ty.sty = "FnDef"
    /\ ~StmtMapper.ty.sig.has_bound_vars
    /\ StmtMapper.ty.sig.output = [sty |-> "Tuple", elems |-> <<[sty |-> "Int"]>>]
    /\ diags = <<>>

\* The span the reducer is to return for a unit-like expression, case by
\* case.
RECURSIVE ClaimedReduction(_)
ClaimedReduction(e) ==
    IF ~IsUnitLikeTy(e.ty) THEN None
    ELSE IF e.node = "Call" \/ e.node = "MethodCall" THEN Some(e.span)
    ELSE IF e.node # "Block" THEN None
    ELSE LET n == Len(e.block.stmts)
             has_tail == e.block.expr # None
         IN  IF n = 0 /\ has_tail THEN ClaimedReduction(e.block.expr[1])
             ELSE IF n = 1 /\ ~has_tail
             THEN LET st == e.block.stmts[1] IN
                  IF st.node = "Local" THEN Some(st.local.span)
                  ELSE IF st.node = "Expr" THEN Some(st.expr.span)
                  ELSE IF st.node = "Semi" THEN Some(st.span)
                  ELSE None
             ELSE None

\* The blocks of an expression: itself and those of its trailing expression.
RECURSIVE BlocksOf(_)
BlocksOf(e) ==
    IF e.node # "Block" THEN {}
    ELSE {e} \cup (IF e.block.expr # None THEN BlocksOf(e.block.expr[1]) ELSE {})

\* C8: for a unit-like body the reducer returns the span of a call or method
\* call; what it returns for the trailing expression of a block without
\* statements; for a block of one statement and no trailing expression the
\* span of the local, of the inner expression of an expression statement, of
\* the whole separator-terminated statement, and none for an item; and none
\* for every other block and every other expression. A local's span is
\* returned only for the sole statement of its block.
C8_ReductionByCases ==
    (pc # "start" /\ IsUnitLikeTy(body.ty)) =>
        /\ reduced = ClaimedReduction(body)
        /\ \A b \in BlocksOf(body) : \A k \in DOMAIN b.block.stmts :
              (b.block.stmts[k].node = "Local"
                 /\ reduced = Some(b.block.stmts[k].local.span))
                => Len(b.block.stmts) = 1

\* { { f(v); } } reduces to the statement f(v);
C8_Witness ==
    /\ pc = "reduced"
    /\ body.node = "Block" /\ body.block.stmts = <<>> /\ body.block.expr # None
    /\ body.block.expr[1].node = "Block"
    /\ Len(body.block.expr[1].block.stmts) = 1
    /\ body.block.expr[1].block.stmts[1].node = "Semi"
    /\ reduced = Some(body.block.expr[1].block.stmts[1].span)

\* C9: reduction is idempotent: reducing the node a returned span covers,
\* re-wrapped in a trivial block, returns that span again.
C9_ReductionIdempotent == pc = "rereduced" => rereduced = reduced

\* The node the span returned by the reducer covers.
Covered == NodeOfSpan(body, reduced[1])[1]

\* The returned span is that of an expression that is no call: the inner
\* expression of an expression statement.
CoversNonCall == Covered.kind = "expr" /\ Covered.expr.node \notin {"Call", "MethodCall"}

\* C9, amended: reducing the re-wrapped node returns the same span, unless
\* the span is that of the inner expression X of a plain expression
\* statement and X is no call or method call; then it returns what reducing
\* X returns, which is never that span.
C9_IdempotentButForExprStmt ==
    pc = "rereduced" =>
        IF CoversNonCall
        THEN rereduced = ClaimedReduction(Covered.expr) /\ rereduced # reduced
        ELSE rereduced = reduced

\* { f(v); } in a block reduces to the statement f(v); and so does that
\* statement re-wrapped
C9_Witness ==
    /\ pc = "rereduced"
    /\ body.node = "Block" /\ body.block.expr # None
    /\ Covered.kind = "stmt" /\ Covered.stmt.node = "Semi"
    /\ rereduced = reduced

\* The characters of an identifier.
IdentStart ==
    {"_", "a", "b", "c", "d", "e", "f", "g", "h", "i", "j", "k", "l", "m", "n", "o",
     "p", "q", "r", "s", "t", "u", "v", "w", "x", "y", "z"}
IdentContinue == IdentStart \cup {"0", "1", "2", "3", "4", "5", "6", "7", "8", "9"}

IsBinding(name) ==
    /\ Len(name) >= 1
    /\ name[1] \in IdentStart
    /\ \A k \in 2..Len(name) : name[k] \in IdentContinue

\* C10: for every receiver the name let_binding_name returns is valid as a
\* binding: a single identifier or _.
C10_BindingNameValid ==
    (Done /\ diags # <<>> /\ StmtMapper.node # "Closure")
        => IsBinding(let_binding_name(cx, StmtReceiver))

====
